---- MODULE Spec2Model ----
(***************************************************************************)
(* Protein Tracker API (src/main.py, src/schemas.py): four request         *)
(* handlers over two document collections, "item" and "consumption".       *)
(*                                                                         *)
(* FastAPI runs each `def` handler in a thread pool, so several requests   *)
(* are in flight at once; every storage call (find_one, create_document,   *)
(* get_documents) is one atomic step and the handlers' storage calls       *)
(* interleave freely.                                                      *)
(*                                                                         *)
(* Numbers: protein_per_unit and quantity are decimals with two places,    *)
(* held as integers in hundredths (0.31 is 31, 1.5 is 150).  A product of  *)
(* the two, protein_total, is therefore held in ten-thousandths, and so is *)
(* every sum of products; round(x, 2) yields a multiple of 100 in that     *)
(* unit.  Text: names and units are opaque strings; identifier strings are *)
(* sequences of characters, a character being its hex digit value 0..15,   *)
(* or 16 for a character that is no hex digit.                             *)
(***************************************************************************)
EXTENDS Integers, Sequences, FiniteSets, TLC

\* ------------------------------------------------------------------ bounds
\* At most MaxDocs documents are inserted, items and consumptions together.
MaxDocs == 3

\* Length of the hex string of a bson ObjectId.
OidHexLen == 24

\* Two requests in flight at a time: enough for every interleaving of two
\* handlers' storage calls.
Workers == {"w1", "w2"}

Quantities == {0, 150, 200}
Days == {1, 2}
\* A wire date pydantic cannot parse into a datetime.date.
NoDate == 0

NonHex == 16

VARIABLES items, cons, pc, req, loc, last, created

vars == <<items, cons, pc, req, loc, last, created>>

\* ------------------------------------------------------- identifier strings
\* str(ObjectId): the 24 hex digits of the identifier.
OidStr(n) == [i \in 1..OidHexLen |-> IF i = OidHexLen THEN n ELSE 0]

\* A well-formed identifier the store never issues ("00...0f").
UnknownId == OidStr(15)

\* Strings ObjectId() rejects: too short, and 24 characters with a non-hex one.
ShortId == <<1, 2>>
NonHexId == [i \in 1..OidHexLen |-> IF i = 1 THEN NonHex ELSE 0]

\* ObjectId.is_valid for a str: 24 characters, all hex digits.
OidValid(s) == Len(s) = OidHexLen /\ \A i \in 1..Len(s) : s[i] \in 0..15

\* ObjectId(id_str) as a number (big-endian hex).
RECURSIVE HexValue(_, _)
HexValue(s, k) == IF k = 0 THEN 0 ELSE 16 * HexValue(s, k - 1) + s[k]

\* oid(): the parsed identifier, or the 400 "Invalid ID format".
OidOk(s) == OidValid(s)
Oid(s) == HexValue(s, Len(s))

\* ------------------------------------------------------------ date strings
\* datetime.date.isoformat(): "YYYY-MM-DD".
IsoFormat(d) == [fmt |-> "ext", day |-> d]

\* Query strings: "YYYY-MM-DD", "YYYYMMDD" and one that is no date at all.
DateStrs == {[fmt |-> f, day |-> d] : f \in {"ext", "basic"}, d \in Days}
              \cup {[fmt |-> "bad", day |-> 0]}

\* date.fromisoformat(s) succeeds: always for "YYYY-MM-DD"; for "YYYYMMDD" only
\* where the interpreter is Python 3.11 or later (basicOk).
FromIsoOk(s, basicOk) == s.fmt = "ext" \/ (s.fmt = "basic" /\ basicOk)
FromIso(s) == s.day

\* ------------------------------------------------------------- arithmetic
\* round(x, 2) for x >= 0 held in ten-thousandths: the nearest multiple of 100,
\* a tie going to the even hundredth.
Round2(x) ==
    LET q == x \div 100
        r == x % 100
    IN  IF r < 50 THEN q * 100
        ELSE IF r > 50 THEN (q + 1) * 100
        ELSE IF q % 2 = 0 THEN q * 100 ELSE (q + 1) * 100

\* ---------------------------------------------------------- storage gateway
\* A collection is the sequence of its documents in insertion order.

\* db[c].find_one({"name": name}): the index of the first match, 0 for None.
FindOneByName(coll, name) ==
    IF \E i \in 1..Len(coll) : coll[i].name = name
    THEN CHOOSE i \in 1..Len(coll) :
            coll[i].name = name /\ \A j \in 1..(i - 1) : coll[j].name # name
    ELSE 0

\* db[c].find_one({"_id": id}): the index of the match, 0 for None.
FindOneById(coll, id) ==
    IF \E i \in 1..Len(coll) : coll[i].id = id
    THEN CHOOSE i \in 1..Len(coll) : coll[i].id = id
    ELSE 0

\* The identifier the storage layer gives the next document of a collection.
NewId(coll) == Len(coll) + 1

\* create_document(c, data): one insert; the new document gets a fresh _id.
CreateDocument(coll, data) == Append(coll, data)

\* get_documents("consumption", {"date": date_str}): the documents whose date
\* field equals the string, in storage order.
RECURSIVE GetDocumentsByDate(_, _)
GetDocumentsByDate(coll, date_str) ==
    IF coll = <<>> THEN <<>>
    ELSE LET rest == GetDocumentsByDate(SubSeq(coll, 1, Len(coll) - 1), date_str)
             d == coll[Len(coll)]
         IN  IF d.date = date_str THEN Append(rest, d) ELSE rest

\* get_documents("item", {}): every document.
GetDocumentsAll(coll) == coll

\* ------------------------------------------------------------------ schemas
\* Item: name and unit are required strings, protein_per_unit has gt=0.
ItemValid(item) == item.protein_per_unit > 0

\* Consumption: date parses to a date, quantity has gt=0.
ConsumptionValid(entry) == entry.date # NoDate /\ entry.quantity > 0

\* Request bodies of POST /api/items: a well-formed item, the same name with
\* another unit and rate, an empty name, and two bodies that break gt=0.
ItemInputs ==
    {[name |-> "egg", unit |-> "gm", protein_per_unit |-> 31],
     [name |-> "egg", unit |-> "", protein_per_unit |-> 25],
     [name |-> "", unit |-> "gm", protein_per_unit |-> 25],
     [name |-> "egg", unit |-> "gm", protein_per_unit |-> 0],
     [name |-> "dal", unit |-> "gm", protein_per_unit |-> 0]}

\* Request bodies of POST /api/consumptions: every pairing of a date and a
\* quantity with the first two identifiers the store issues; an identifier it
\* never issues; two malformed identifiers; and bodies the schema rejects (a
\* quantity of 0, with a good and with a malformed identifier, and a date
\* that does not parse).
ConsumptionInputs ==
    [date : Days, item_id : {OidStr(1), OidStr(2)}, quantity : Quantities \ {0}]
      \cup {[date |-> 1, item_id |-> UnknownId, quantity |-> 150],
            [date |-> 1, item_id |-> ShortId, quantity |-> 150],
            [date |-> 2, item_id |-> NonHexId, quantity |-> 200],
            [date |-> 1, item_id |-> OidStr(1), quantity |-> 0],
            [date |-> 1, item_id |-> ShortId, quantity |-> 0],
            [date |-> 1, item_id |-> UnknownId, quantity |-> 0],
            [date |-> NoDate, item_id |-> OidStr(1), quantity |-> 150]}

\* serialize_item(doc)
SerializeItem(doc) ==
    [id |-> OidStr(doc.id), name |-> doc.name, unit |-> doc.unit,
     protein_per_unit |-> doc.protein_per_unit]

\* ConsumptionOut(...) built from a stored document.
SerializeConsumption(d) ==
    [id |-> OidStr(d.id), date |-> FromIso(d.date), item_id |-> d.item_id,
     item_name |-> d.item_name, unit |-> d.unit, quantity |-> d.quantity,
     protein_per_unit |-> d.protein_per_unit, protein_total |-> d.protein_total]

\* ----------------------------------------------------------------- requests
NoReq == <<>>
NoBody == <<>>

\* A request's locals: new_id and payload are the handler's variables; taken
\* records whether an item of the request's name was stored when it arrived.
NoLoc == [taken |-> FALSE, new_id |-> <<>>, payload |-> <<>>]

\* The exchange that has just completed, until the client takes the response:
\* the request, the response (status, body), the identifier of the document
\* the request inserted (0: none) and whether an item of its name was stored
\* when it arrived.  created holds the names whose create-item has returned 200.
NoExchange ==
    [op |-> "none", req |-> NoReq, status |-> 0, body |-> NoBody,
     inserted |-> 0, taken |-> FALSE]

Init ==
    /\ items = <<>>
    /\ cons = <<>>
    /\ pc = [p \in Workers |-> "idle"]
    /\ req = [p \in Workers |-> NoReq]
    /\ loc = [p \in Workers |-> NoLoc]
    /\ last = NoExchange
    /\ created = {}

\* The response leaves the handler: worker p is free again.
Respond(p, op, r, status, body, inserted, taken) ==
    /\ last' = [op |-> op, req |-> r, status |-> status, body |-> body,
                inserted |-> inserted, taken |-> taken]
    /\ pc' = [pc EXCEPT ![p] = "idle"]
    /\ req' = [req EXCEPT ![p] = NoReq]
    /\ loc' = [loc EXCEPT ![p] = NoLoc]

\* The identifier of the document worker p's request has inserted, 0 for none:
\* new_id is set by the handler's create_document call and by nothing else.
InsertedBy(p) ==
    IF loc[p].new_id = <<>> THEN 0
    ELSE HexValue(loc[p].new_id, Len(loc[p].new_id))

\* The documents stored, plus the requests in flight that may yet insert one.
Inserts ==
    Len(items) + Len(cons)
      + Cardinality({w \in Workers :
                       pc[w] \in {"ci_find", "ci_insert", "cc_find", "cc_insert"}})

\* ------------------------------------------------------ POST /api/items
\* FastAPI validates the body against Item (422 on failure) and only then
\* calls create_item.
RecvCreateItem(p) ==
    \E item \in ItemInputs :
        LET taken == FindOneByName(items, item.name) # 0 IN
        /\ last = NoExchange
        /\ pc[p] = "idle"
        /\ (ItemValid(item) /\ ~taken) => Inserts < MaxDocs
        /\ IF ~ItemValid(item)
           THEN /\ Respond(p, "create_item", item, 422, NoBody, 0, taken)
                /\ UNCHANGED <<items, cons, created>>
           ELSE /\ pc' = [pc EXCEPT ![p] = "ci_find"]
                /\ req' = [req EXCEPT ![p] = item]
                /\ loc' = [loc EXCEPT ![p] = [NoLoc EXCEPT !.taken = taken]]
                /\ UNCHANGED <<items, cons, last, created>>

\* create_item without its duplicate check: the lookup's answer is ignored.
CreateItemFindNoCheck(p) ==
    /\ last = NoExchange
    /\ pc[p] = "ci_find"
    /\ pc' = [pc EXCEPT ![p] = "ci_insert"]
    /\ UNCHANGED <<items, cons, req, loc, last, created>>

\* existing = db["item"].find_one({"name": item.name}); 400 if existing.
CreateItemFind(p) ==
    /\ last = NoExchange
    /\ pc[p] = "ci_find"
    /\ IF FindOneByName(items, req[p].name) # 0
       THEN Respond(p, "create_item", req[p], 400, NoBody, InsertedBy(p),
                    loc[p].taken)
       ELSE /\ pc' = [pc EXCEPT ![p] = "ci_insert"]
            /\ UNCHANGED <<req, loc, last>>
    /\ UNCHANGED <<items, cons, created>>

\* create_item writing with an upsert keyed by name instead of an insert: a
\* stored item of the same name is overwritten in place.
CreateItemUpsert(p) ==
    /\ last = NoExchange
    /\ pc[p] = "ci_insert"
    /\ LET i == FindOneByName(items, req[p].name)
           doc == [id |-> IF i = 0 THEN NewId(items) ELSE items[i].id,
                   name |-> req[p].name, unit |-> req[p].unit,
                   protein_per_unit |-> req[p].protein_per_unit]
       IN  /\ items' = IF i = 0 THEN Append(items, doc)
                                ELSE [items EXCEPT ![i] = doc]
           /\ loc' = [loc EXCEPT ![p].new_id = OidStr(doc.id)]
    /\ pc' = [pc EXCEPT ![p] = "ci_read"]
    /\ UNCHANGED <<cons, req, last, created>>

\* new_id = create_document("item", item)
CreateItemInsert(p) ==
    /\ last = NoExchange
    /\ pc[p] = "ci_insert"
    /\ items' = CreateDocument(items,
                   [id |-> NewId(items), name |-> req[p].name,
                    unit |-> req[p].unit,
                    protein_per_unit |-> req[p].protein_per_unit])
    /\ loc' = [loc EXCEPT ![p].new_id = OidStr(NewId(items))]
    /\ pc' = [pc EXCEPT ![p] = "ci_read"]
    /\ UNCHANGED <<cons, req, last, created>>

\* doc = db["item"].find_one({"_id": oid(new_id)}); return serialize_item(doc).
\* serialize_item(None) raises AttributeError: an unhandled 500.
CreateItemRead(p) ==
    /\ last = NoExchange
    /\ pc[p] = "ci_read"
    /\ LET i == IF OidOk(loc[p].new_id)
                THEN FindOneById(items, Oid(loc[p].new_id)) ELSE 0
       IN  IF ~OidOk(loc[p].new_id)
           THEN /\ Respond(p, "create_item", req[p], 400, NoBody,
                           InsertedBy(p), loc[p].taken)
                /\ UNCHANGED created
           ELSE IF i = 0
           THEN /\ Respond(p, "create_item", req[p], 500, NoBody,
                           InsertedBy(p), loc[p].taken)
                /\ UNCHANGED created
           ELSE /\ Respond(p, "create_item", req[p], 200, SerializeItem(items[i]),
                           InsertedBy(p), loc[p].taken)
                /\ created' = created \cup {req[p].name}
    /\ UNCHANGED <<items, cons>>

\* ------------------------------------------------------- GET /api/items
\* docs = get_documents("item", {}); return [serialize_item(d) for d in docs]
ListItems(p) ==
    /\ last = NoExchange
    /\ pc[p] = "idle"
    /\ LET docs == GetDocumentsAll(items) IN
       Respond(p, "list_items", NoReq, 200,
               [i \in 1..Len(docs) |-> SerializeItem(docs[i])],
               0, FALSE)
    /\ UNCHANGED <<items, cons, created>>

\* ------------------------------------------------ POST /api/consumptions
\* The payload with protein_total left at the quantity (the rate forgotten).
ConsumptionPayloadNoRate(entry, item_doc) ==
    [date |-> IsoFormat(entry.date),
     item_id |-> entry.item_id,
     item_name |-> item_doc.name,
     unit |-> item_doc.unit,
     quantity |-> entry.quantity,
     protein_per_unit |-> item_doc.protein_per_unit,
     protein_total |-> entry.quantity]

\* The document create_consumption stores: the entry plus a snapshot of the
\* item's name, unit and protein_per_unit, and the computed protein_total.
ConsumptionPayload(entry, item_doc) ==
    [date |-> IsoFormat(entry.date),
     item_id |-> entry.item_id,
     item_name |-> item_doc.name,
     unit |-> item_doc.unit,
     quantity |-> entry.quantity,
     protein_per_unit |-> item_doc.protein_per_unit,
     protein_total |-> item_doc.protein_per_unit * entry.quantity]

\* FastAPI validates the body against Consumption (422 on failure) and only
\* then calls create_consumption.
RecvCreateConsumption(p) ==
    \E entry \in ConsumptionInputs :
        /\ last = NoExchange
        /\ pc[p] = "idle"
        /\ (ConsumptionValid(entry) /\ OidOk(entry.item_id)) => Inserts < MaxDocs
        /\ IF ~ConsumptionValid(entry)
           THEN /\ Respond(p, "create_consumption", entry, 422, NoBody, 0,
                           FALSE)
                /\ UNCHANGED <<items, cons, created>>
           ELSE /\ pc' = [pc EXCEPT ![p] = "cc_find"]
                /\ req' = [req EXCEPT ![p] = entry]
                /\ UNCHANGED <<items, cons, loc, last, created>>

\* create_consumption looking the item up with an empty filter: any stored
\* item answers, whatever the identifier.
CreateConsumptionFindAny(p) ==
    /\ last = NoExchange
    /\ pc[p] = "cc_find"
    /\ LET i == IF Len(items) > 0 THEN 1 ELSE 0
       IN  IF ~OidOk(req[p].item_id)
           THEN Respond(p, "create_consumption", req[p], 400, NoBody,
                        InsertedBy(p), FALSE)
           ELSE IF i = 0
           THEN Respond(p, "create_consumption", req[p], 404, NoBody,
                        InsertedBy(p), FALSE)
           ELSE /\ loc' = [loc EXCEPT
                             ![p].payload = ConsumptionPayload(req[p], items[i])]
                /\ pc' = [pc EXCEPT ![p] = "cc_insert"]
                /\ UNCHANGED <<req, last>>
    /\ UNCHANGED <<items, cons, created>>

\* item_doc = db["item"].find_one({"_id": oid(entry.item_id)}): oid() raises
\* the 400 before the lookup; 404 if not item_doc; else the payload is built.
CreateConsumptionFind(p) ==
    /\ last = NoExchange
    /\ pc[p] = "cc_find"
    /\ LET i == IF OidOk(req[p].item_id)
                THEN FindOneById(items, Oid(req[p].item_id)) ELSE 0
       IN  IF ~OidOk(req[p].item_id)
           THEN Respond(p, "create_consumption", req[p], 400, NoBody,
                        InsertedBy(p), FALSE)
           ELSE IF i = 0
           THEN Respond(p, "create_consumption", req[p], 404, NoBody,
                        InsertedBy(p), FALSE)
           ELSE /\ loc' = [loc EXCEPT
                             ![p].payload = ConsumptionPayload(req[p], items[i])]
                /\ pc' = [pc EXCEPT ![p] = "cc_insert"]
                /\ UNCHANGED <<req, last>>
    /\ UNCHANGED <<items, cons, created>>

\* new_id = create_document("consumption", payload)
CreateConsumptionInsert(p) ==
    /\ last = NoExchange
    /\ pc[p] = "cc_insert"
    /\ cons' = CreateDocument(cons,
                  [id |-> NewId(cons),
                   date |-> loc[p].payload.date,
                   item_id |-> loc[p].payload.item_id,
                   item_name |-> loc[p].payload.item_name,
                   unit |-> loc[p].payload.unit,
                   quantity |-> loc[p].payload.quantity,
                   protein_per_unit |-> loc[p].payload.protein_per_unit,
                   protein_total |-> loc[p].payload.protein_total])
    /\ loc' = [loc EXCEPT ![p].new_id = OidStr(NewId(cons))]
    /\ pc' = [pc EXCEPT ![p] = "cc_read"]
    /\ UNCHANGED <<items, req, last, created>>

\* saved = db["consumption"].find_one({"_id": oid(new_id)});
\* return ConsumptionOut(...).  saved.get on None raises: an unhandled 500.
CreateConsumptionRead(p) ==
    /\ last = NoExchange
    /\ pc[p] = "cc_read"
    /\ LET i == IF OidOk(loc[p].new_id)
                THEN FindOneById(cons, Oid(loc[p].new_id)) ELSE 0
       IN  IF ~OidOk(loc[p].new_id)
           THEN Respond(p, "create_consumption", req[p], 400, NoBody,
                        InsertedBy(p), FALSE)
           ELSE IF i = 0
           THEN Respond(p, "create_consumption", req[p], 500, NoBody,
                        InsertedBy(p), FALSE)
           ELSE Respond(p, "create_consumption", req[p], 200,
                        SerializeConsumption(cons[i]), InsertedBy(p), FALSE)
    /\ UNCHANGED <<items, cons, created>>

\* ------------------------------------------------- GET /api/consumptions
\* The listing without its date filter: every consumption document.
ListConsumptionsDocsUnfiltered(date_str) == cons

\* docs = get_documents("consumption", {"date": date_str})
ListConsumptionsDocs(date_str) == GetDocumentsByDate(cons, date_str)

\* The loop of list_consumptions: total_protein starts at 0.0 and grows by
\* each entry's protein_total in turn; the response carries round(total, 2).
RECURSIVE Accumulate(_, _, _)
Accumulate(entries, k, total) ==
    IF k > Len(entries) THEN total
    ELSE Accumulate(entries, k + 1, total + entries[k].protein_total)

\* The total returned as accumulated, without round(total, 2).
TotalProteinUnrounded(entries) == Accumulate(entries, 1, 0)

TotalProtein(entries) == Round2(Accumulate(entries, 1, 0))

\* date.fromisoformat(date_str) fails: 400.  Otherwise the matching documents,
\* each as a ConsumptionOut, and their rounded total.
ListConsumptions(p) ==
    \E date_str \in DateStrs, basicOk \in BOOLEAN :
        /\ last = NoExchange
        /\ pc[p] = "idle"
        /\ IF ~FromIsoOk(date_str, basicOk)
           THEN Respond(p, "list_consumptions", date_str, 400, NoBody, 0,
                        FALSE)
           ELSE LET docs == ListConsumptionsDocs(date_str)
                    entries == [i \in 1..Len(docs) |->
                                   SerializeConsumption(docs[i])]
                IN  Respond(p, "list_consumptions", date_str, 200,
                            [date |-> date_str, entries |-> entries,
                             total_protein |-> TotalProtein(entries)],
                            0, FALSE)
        /\ UNCHANGED <<items, cons, created>>

\* ------------------------------------------------------- storage failures
\* A storage call of a create handler raises (the database is unreachable):
\* the exception is not caught, the request ends in an unhandled 500.
StorageThrows(p) ==
    /\ last = NoExchange
    /\ pc[p] \in {"ci_find", "ci_insert", "ci_read",
                  "cc_find", "cc_insert", "cc_read"}
    /\ pc[p] = "cc_find" => OidOk(req[p].item_id)
    /\ Respond(p,
               IF pc[p] \in {"ci_find", "ci_insert", "ci_read"}
               THEN "create_item" ELSE "create_consumption",
               req[p], 500, NoBody, InsertedBy(p), loc[p].taken)
    /\ UNCHANGED <<items, cons, created>>

\* get_documents of a list handler raises: an unhandled 500.
ListThrows(p) ==
    \E op \in {"list_items", "list_consumptions"} :
        /\ last = NoExchange
        /\ pc[p] = "idle"
        /\ Respond(p, op, NoReq, 500, NoBody, 0, FALSE)
        /\ UNCHANGED <<items, cons, created>>

\* ------------------------------------------------------------ specification
\* The client takes the response.  Nothing else moves while a response is
\* held, so the stores a response is read against are those it was built from.
Deliver ==
    /\ last # NoExchange
    /\ last' = NoExchange
    /\ UNCHANGED <<items, cons, pc, req, loc, created>>

Next ==
    \/ Deliver
    \/ \E p \in Workers :
        \/ RecvCreateItem(p)
        \/ CreateItemFind(p)
        \/ CreateItemInsert(p)
        \/ CreateItemRead(p)
        \/ ListItems(p)
        \/ RecvCreateConsumption(p)
        \/ CreateConsumptionFind(p)
        \/ CreateConsumptionInsert(p)
        \/ CreateConsumptionRead(p)
        \/ ListConsumptions(p)

\* The storage layer answers every call.
Spec == Init /\ [][Next]_vars

NextFaulty ==
    \/ Next
    \/ \E p \in Workers : StorageThrows(p)
    \/ \E p \in Workers : ListThrows(p)

\* Any storage call may raise instead of answering.
FaultySpec == Init /\ [][NextFaulty]_vars

\* ------------------------------------------------------------------- claims
Creates == {"create_item", "create_consumption"}

\* C1: in every reachable state no two stored items share a name, whatever
\* the interleaving of the create-item requests' storage calls.
C1_UniqueNames ==
    \A i, j \in 1..Len(items) : i # j => items[i].name # items[j].name

MalformedIds == {ShortId, NonHexId}

Resolves(id_str) ==
    \E i \in 1..Len(items) : OidStr(items[i].id) = id_str

C4_SnapshotOfItem ==
    (last.op = "create_consumption" /\ last.status = 200)
        => \E i \in 1..Len(items), k \in 1..Len(cons) :
              /\ OidStr(items[i].id) = last.req.item_id
              /\ cons[k].id = last.inserted
              /\ cons[k].item_name = items[i].name
              /\ cons[k].unit = items[i].unit
              /\ cons[k].protein_per_unit = items[i].protein_per_unit
              /\ cons[k].quantity = last.req.quantity
              /\ cons[k].protein_total
                    = items[i].protein_per_unit * last.req.quantity
              /\ cons[k].date = IsoFormat(last.req.date)
              /\ last.body.id = OidStr(cons[k].id)
              /\ last.body.date = last.req.date
              /\ last.body.item_id = last.req.item_id
              /\ last.body.item_name = cons[k].item_name
              /\ last.body.unit = cons[k].unit
              /\ last.body.quantity = cons[k].quantity
              /\ last.body.protein_per_unit = cons[k].protein_per_unit
              /\ last.body.protein_total = cons[k].protein_total

\* C4's case: 200 units of the second stored item, rate 0.31, recorded with a
\* protein_total of 62.0.
C4_Witness ==
    /\ last.op = "create_consumption"
    /\ last.status = 200
    /\ last.req.item_id = OidStr(2)
    /\ last.req.quantity = 200
    /\ last.body.protein_total = 6200
    /\ last.body.item_name = "egg"

\* The stored consumption records of date string D, by position.
StoredOn(D) == {k \in 1..Len(cons) : cons[k].date = D}

\* C5: a list-consumptions response for a valid date D holds exactly the
\* stored records whose date equals D, each once: every record created with
\* date D, none of another date, and nothing when there is none.
C5_ListIsExactlyTheDate ==
    (last.op = "list_consumptions" /\ last.status = 200)
        => LET entries == last.body.entries IN
           /\ last.body.date = last.req
           /\ Len(entries) = Cardinality(StoredOn(last.req))
           /\ \A k \in StoredOn(last.req) :
                 \E e \in 1..Len(entries) :
                    entries[e] = SerializeConsumption(cons[k])
           /\ \A e \in 1..Len(entries) :
                 \E k \in StoredOn(last.req) : entries[e].id = OidStr(cons[k].id)
           /\ \A d \in Days :
                 last.req = IsoFormat(d) =>
                    \A k \in 1..Len(cons) :
                       (\E e \in 1..Len(entries) :
                           entries[e].id = OidStr(cons[k].id))
                          <=> cons[k].date = IsoFormat(d)
           /\ (StoredOn(last.req) = {}) => entries = <<>>

\* C5's case: the listing returns a record of the date asked for while a
\* record of another date is stored.
C5_Witness ==
    /\ last.op = "list_consumptions"
    /\ last.status = 200
    /\ Len(last.body.entries) = 1
    /\ \E k \in 1..Len(cons) : cons[k].date # last.req

\* The sum of the entries' protein_total, last entry first.
RECURSIVE SumOfTotals(_)
SumOfTotals(entries) ==
    IF entries = <<>> THEN 0
    ELSE entries[Len(entries)].protein_total
           + SumOfTotals(SubSeq(entries, 1, Len(entries) - 1))

\* |a - b|
Dist(a, b) == IF a >= b THEN a - b ELSE b - a

\* C6: total_protein of a list-consumptions response is the sum of
\* protein_total over the entries of that response rounded to 2 decimal
\* places (a whole number of hundredths, at most half a hundredth from the
\* sum, the even one on a tie), and 0.0 when there is no entry.
C6_TotalIsRoundedSum ==
    (last.op = "list_consumptions" /\ last.status = 200)
        => LET sum == SumOfTotals(last.body.entries)
               total == last.body.total_protein
           IN  /\ total % 100 = 0
               /\ Dist(total, sum) <= 50
               /\ Dist(total, sum) = 50 => (total \div 100) % 2 = 0
               /\ last.body.entries = <<>> => total = 0

\* C6's case: two entries whose sum, 0.875, is not a whole number of
\* hundredths, so that the rounding acts.
C6_Witness ==
    /\ last.op = "list_consumptions"
    /\ last.status = 200
    /\ Len(last.body.entries) = 2
    /\ SumOfTotals(last.body.entries) = 8750
    /\ last.body.total_protein = 8800

\* C7: once a create-item request for a name has returned the created item,
\* every list-items response holds exactly one item of that name.
C7_CreatedListedOnce ==
    (last.op = "list_items" /\ last.status = 200)
        => \A n \in created :
              Cardinality({k \in 1..Len(last.body) : last.body[k].name = n}) = 1

\* C8: a create request that ends in an error has inserted no record, and a
\* request that has inserted a record returns success.
C8_AllOrNothing ==
    (last.op \in Creates)
        => (last.inserted # 0 <=> last.status = 200)

\* C9: every stored item has a non-empty name, a non-empty unit and a
\* protein_per_unit above zero.
C9_StoredItemsValid ==
    \A i \in 1..Len(items) :
        /\ items[i].name # ""
        /\ items[i].unit # ""
        /\ items[i].protein_per_unit > 0

\* s is t, or t with documents added at its end.
IsPrefix(s, t) == Len(s) <= Len(t) /\ SubSeq(t, 1, Len(s)) = s

\* What one step may do to the stores: every stored document stays as it is,
\* at most one document is added in all, only by the insert of a create
\* handler and to that handler's collection, and a step that answers a list
\* request (or any request) adds none.
AppendOnlyStep ==
    /\ IsPrefix(items, items')
    /\ IsPrefix(cons, cons')
    /\ Len(items') + Len(cons') <= Len(items) + Len(cons) + 1
    /\ items' # items =>
          \E p \in Workers : pc[p] = "ci_insert" /\ pc'[p] = "ci_read"
    /\ cons' # cons =>
          \E p \in Workers : pc[p] = "cc_insert" /\ pc'[p] = "cc_read"
    /\ last' # last => (items' = items /\ cons' = cons)

\* C10: both stores are append-only: no step of any of the four operations,
\* in any interleaving, removes or changes a stored document; list operations
\* leave both stores unchanged and a create inserts at most one document,
\* into its own collection.
C10_AppendOnly == [][AppendOnlyStep]_vars

\* C10's case: with an item and a consumption stored, a second create-item of
\* a name already stored by a concurrent request has inserted its document.
C10_Witness ==
    /\ Len(items) = 2
    /\ Len(cons) = 1
    /\ items[1].name = items[2].name
    /\ last.op = "list_items"

====
